---- MODULE Spec2Model ----
(***************************************************************************)
(* profile-api: the journal handlers (journal/journal.go), the cookie/JWT  *)
(* middleware (auth/middleware) and the auth handlers (auth/auth.go) over  *)
(* the "journal" and "users" collections of the document store.            *)
(*                                                                         *)
(* Two specifications share the handler definitions:                       *)
(*   Spec      applies each exported handler func(c *gin.Context) to every *)
(*             gin context of a bounded set (keys "user" / "userID" set or *)
(*             not): the handlers' logic on their whole input space;       *)
(*   SpecHTTP  is the program as wired by InitializeRoutes: a request with *)
(*             a cookie runs through AuthMiddleware where the route has    *)
(*             it, and the handler gets the context the middleware built.  *)
(***************************************************************************)
EXTENDS Integers, Sequences, FiniteSets, TLC

VARIABLES
    users,      \* the "users" collection, in insertion order
    journals,   \* the "journal" collection, in insertion order
    now,        \* the wall clock, in ticks (time.Now())
    ids,        \* how many identifiers utils.GenerateID has handed out
    request,    \* the HTTP request served last (SpecHTTP): route, cookie, inputs
    response,   \* the response written last: handler, status, body, who wrote it
    hist,       \* history: per journalID, the writes applied to the aggregate
    pending,    \* per in-flight request: the handler it is in, between two store calls
    skills,     \* the "skills" collection
    certificates,   \* the "certificates" collection
    oids,       \* how many primitive.NewObjectID() values the sub-resources took
    profiles,   \* the "profiles" collection
    images      \* the image store: the stored objects, by name

vars == <<users, journals, now, ids, request, response, hist, pending, skills,
          certificates, oids, profiles, images>>

----------------------------------------------------------------------------
(* Bounds *)

MaxClock == 4       \* ticks of the clock (handler runs that read time.Now())

UserIDs == {1, 2}       \* the user ids of the model (primitive.NewObjectID().Hex())
JournalIDs == {1, 2}    \* the identifiers utils.GenerateID hands out, in this order
Statuses == {"public", "draft"}     \* status strings a client sends
Emails == {"a@x", "b@x"}
MaxUsers == 3       \* user documents in the "users" collection of SpecRegister
MaxDocs == 2        \* documents in the sub-resource collections of SpecResources
Passwords == {"pw", "other"}

----------------------------------------------------------------------------
(* Values *)

ZeroTime == 0       \* time.Time{} (an absent timestamp in a JSON body)

\* journal.Entry, as bound from a request body: updatedAt absent
Entry(v, t) ==
    [version |-> v, title |-> t, content |-> "", attachments |-> <<>>,
     updated_at |-> ZeroTime]

\* journal.Taxonomy{}: no handler ever writes it
EmptyTaxonomy ==
    [categories |-> {}, subcategories |-> {}, topics |-> {}, tags |-> {}]

\* The Entry payloads clients send: without a "version" (0), or with one
EntryPayloads == {Entry(0, "Day 1"), Entry(1, "Day 2")}

\* A JSON request body for c.ShouldBindJSON(&Entry): malformed, or an Entry
EntryBodies ==
    {[ok |-> FALSE, entry |-> Entry(0, "")]}
        \cup {[ok |-> TRUE, entry |-> e] : e \in EntryPayloads}

\* gin.Context keys: 0 stands for "key not set"; "user" holds an auth.User,
\* named here by its ID, "userID" a string
Ctx(u, uid) == [user |-> u, userID |-> uid]
NoCtx == Ctx(0, 0)

\* The token cookie: absent, or a JWT that verifies (ok) or not, with claims.Id
NoCookie == [present |-> FALSE, ok |-> FALSE, id |-> 0]
Token(i, good) == [present |-> TRUE, ok |-> good, id |-> i]

NoBody == [kind |-> "none"]
ErrorBody(msg) == [kind |-> "error", error |-> msg]
MessageBody(msg) == [kind |-> "message", message |-> msg]

\* A request as the router sees it; a handler called directly leaves NoRequest
Request(route, ck, jid, ok, title, target, newStatus) ==
    [route |-> route, cookie |-> ck, jid |-> jid, ok |-> ok, title |-> title,
     target |-> target, newStatus |-> newStatus]
NoRequest == Request("none", NoCookie, 0, TRUE, "", 0, "")

NoHist == [appends |-> 0, others |-> FALSE]

\* var imageStore ImageStore before init() of package profile has run
NoStore == [kind |-> "none", objects |-> {}]

\* The requests the server handles at the same time (one goroutine each)
Workers == {1, 2}

\* An in-flight request: the handler (pc), the caller and journal it names, the
\* document its FindOne decoded (read), and its bound body
Idle ==
    [pc |-> "idle", userID |-> 0, jid |-> 0, read |-> <<>>, entry |-> Entry(0, ""),
     version |-> 0, email |-> "", password |-> ""]

Init ==
    /\ users = <<>>
    /\ journals = <<>>
    /\ now = 0
    /\ ids = 0
    /\ request = NoRequest
    /\ response = [op |-> "none", status |-> 0, body |-> NoBody, by |-> "none"]
    /\ hist = [j \in JournalIDs |-> NoHist]
    /\ pending = [w \in Workers |-> Idle]
    /\ skills = <<>>
    /\ certificates = <<>>
    /\ oids = 0
    /\ profiles = <<>>
    /\ images = NoStore

----------------------------------------------------------------------------
(* The document store (mongo.Collection), one operation per call *)

\* bson.M{k: v, ...} as a filter: every named field equals the given value
Matches(doc, f) == \A k \in DOMAIN f : doc[k] = f[k]

\* FindOne: the first matching document's position, 0 for mongo.ErrNoDocuments
FindIdx(coll, f) ==
    IF \E i \in 1..Len(coll) : Matches(coll[i], f)
    THEN CHOOSE i \in 1..Len(coll) :
            /\ Matches(coll[i], f)
            /\ \A k \in 1..(i - 1) : ~Matches(coll[k], f)
    ELSE 0

InsertOne(coll, doc) == Append(coll, doc)

\* UpdateOne with {"$set": set}: the first match gets the fields of set; no
\* match is no error and no upsert
UpdateOne(coll, f, set) ==
    LET i == FindIdx(coll, f) IN
    IF i = 0 THEN coll
    ELSE [coll EXCEPT ![i] =
            [k \in DOMAIN coll[i] |-> IF k \in DOMAIN set THEN set[k] ELSE coll[i][k]]]

\* DeleteOne: the first match is removed; no match is no error
DeleteOne(coll, f) ==
    LET i == FindIdx(coll, f) IN
    IF i = 0 THEN coll
    ELSE [k \in 1..(Len(coll) - 1) |-> IF k < i THEN coll[k] ELSE coll[k + 1]]


----------------------------------------------------------------------------
(* Outcomes: what one run of a handler leaves behind. A handler is an       *)
(* operator from the gin context and the request's inputs to its outcome:   *)
(* the "journal" collection, the clock and the identifier counter after it, *)
(* and the response it wrote with c.JSON.                                    *)

JournalBody(j) == [kind |-> "journal", journal |-> j]
ListBody(l) == [kind |-> "list", list |-> l]

Outcome(op, coll, t, n, h, status, body, by) ==
    [op |-> op, journals |-> coll, now |-> t, ids |-> n, hist |-> h,
     status |-> status, body |-> body, by |-> by]

\* A handler's early return: a response and nothing else
Fail(op, status, msg) ==
    Outcome(op, journals, now, ids, hist, status, ErrorBody(msg), op)

\* A read: a response and nothing else
Answer(op, body) ==
    Outcome(op, journals, now, ids, hist, 200, body, op)

\* c.MustGet(key) on a missing key panics; gin.Default()'s Recovery answers 500
Panic(op) ==
    Outcome(op, journals, now, ids, hist, 500, NoBody, "Recovery")

Noted(jid, what) ==
    [hist EXCEPT ![jid] =
        IF what = "append" THEN [@ EXCEPT !.appends = @ + 1]
        ELSE [@ EXCEPT !.others = TRUE]]

----------------------------------------------------------------------------
(* journal/journal.go *)

\* The JournalEntry built by CreateJournalEntry: the bound Entry is stored as
\* it came; the two time.Now() readings fall into the same tick
NewJournalEntry(id, userID, newEntry, t) ==
    [journal_id |-> id, user_id |-> userID, version |-> 1,
     entries |-> <<newEntry>>, status |-> "pending",
     taxonomy |-> EmptyTaxonomy, summary |-> "",
     created_at |-> t, updated_at |-> t]

CreateJournalEntry(c, body) ==
    LET op == "CreateJournalEntry" IN
    IF c.user = 0 THEN Fail(op, 401, "User not authenticated")
    ELSE IF c.user < 0 THEN Fail(op, 500, "Failed to parse user information")
    ELSE IF ~body.ok THEN Fail(op, 400, "bind")
    ELSE
    LET journalEntry == NewJournalEntry(ids + 1, c.user, body.entry, now + 1) IN
        Outcome(op, InsertOne(journals, journalEntry), now + 1, ids + 1,
                [hist EXCEPT ![ids + 1] = NoHist],
                201, JournalBody(journalEntry), op)

\* updatedEntry.Version = journal.Version + 1
NewVersion(journal) == journal.version + 1

\* The decoded journal after lines 118-122: the bound entry stamped and
\* appended, the pointer and updatedAt set
Appended(journal, updatedEntry, t) ==
    LET stamped == [updatedEntry EXCEPT !.version = NewVersion(journal),
                                        !.updated_at = t]
    IN  [journal EXCEPT !.entries = Append(@, stamped),
                        !.version = stamped.version,
                        !.updated_at = t]

\* (mutant of SaveAppended: the new entry is pushed onto the stored array)
SaveAppended_Push(coll, f, journal) ==
    LET i == FindIdx(coll, f) IN
    IF i = 0 THEN coll
    ELSE UpdateOne(coll, f,
            [entries |-> Append(coll[i].entries, journal.entries[Len(journal.entries)]),
             version |-> journal.version, updated_at |-> journal.updated_at])

\* The UpdateOne of lines 124-128: $set of entries, version and updated_at
SaveAppended(coll, f, journal) ==
    UpdateOne(coll, f,
        [entries |-> journal.entries, version |-> journal.version,
         updated_at |-> journal.updated_at])

UpdateJournalEntry(c, journalid, body) ==
    LET op == "UpdateJournalEntry" IN
    IF c.userID = 0 THEN Panic(op)
    ELSE IF ~body.ok THEN Fail(op, 400, "bind")
    ELSE
    LET f == [journal_id |-> journalid, user_id |-> c.userID]
        i == FindIdx(journals, f)
    IN  IF i = 0 THEN Fail(op, 404, "Journal entry not found")
        ELSE
        LET journal == Appended(journals[i], body.entry, now + 1)
        IN  Outcome(op, SaveAppended(journals, f, journal),
                    now + 1, ids, Noted(journalid, "append"),
                    200, JournalBody(journal), op)

GetJournalMeta(c, journalid) ==
    LET op == "GetJournalMeta"
        i == FindIdx(journals, [journal_id |-> journalid])
    IN  IF i = 0 THEN Fail(op, 404, "Journal entry not found")
        ELSE Answer(op,
                [kind |-> "meta", createdAt |-> journals[i].created_at,
                 updatedAt |-> journals[i].updated_at, version |-> journals[i].version,
                 status |-> journals[i].status, userID |-> journals[i].user_id])

\* (mutant of ProcessJournalEntry: the filter names the journal only and the
\* update stamps the caller as its user)
ProcessJournalEntry_Claim(c, journalid) ==
    IF c.userID = 0 THEN Panic("ProcessJournalEntry")
    ELSE Outcome("ProcessJournalEntry",
                 UpdateOne(journals, [journal_id |-> journalid],
                           [status |-> "processing", user_id |-> c.userID]),
                 now, ids, hist, 200, MessageBody("Journal entry is being processed"),
                 "ProcessJournalEntry")

ProcessJournalEntry(c, journalid) ==
    LET op == "ProcessJournalEntry" IN
    IF c.userID = 0 THEN Panic(op)
    ELSE
    LET f == [journal_id |-> journalid, user_id |-> c.userID] IN
        Outcome(op, UpdateOne(journals, f, [status |-> "processing"]), now, ids,
                IF FindIdx(journals, f) = 0 THEN hist ELSE Noted(journalid, "process"),
                200, MessageBody("Journal entry is being processed"), op)

GetJournalVersions(c, journalid) ==
    LET op == "GetJournalVersions"
        i == FindIdx(journals, [journal_id |-> journalid])
    IN  IF i = 0 THEN Fail(op, 404, "Journal entry not found")
        ELSE Answer(op, [kind |-> "entries", entries |-> journals[i].entries])

\* for _, entry := range journal.Entries { if entry.Version == req.Version {...} }
HasVersion(journal, version) ==
    \E k \in 1..Len(journal.entries) : journal.entries[k].version = version

SetJournalVersion(c, journalid, body) ==
    LET op == "SetJournalVersion" IN
    IF c.userID = 0 THEN Panic(op)
    ELSE IF ~body.ok THEN Fail(op, 400, "bind")
    ELSE
    LET f == [journal_id |-> journalid, user_id |-> c.userID]
        i == FindIdx(journals, f)
    IN  IF i = 0 THEN Fail(op, 404, "Journal entry not found")
        ELSE IF ~HasVersion(journals[i], body.version)
        THEN Fail(op, 400, "Version not found")
        ELSE
        LET journal == [journals[i] EXCEPT !.version = body.version,
                                           !.updated_at = now + 1]
        IN  Outcome(op,
                    UpdateOne(journals, f,
                        [version |-> journal.version, updated_at |-> journal.updated_at]),
                    now + 1, ids, Noted(journalid, "version"),
                    200, JournalBody(journal), op)

\* (mutant of SetJournalStatus: the update runs with SetUpsert(true))
SetJournalStatus_Upsert(c, journalid, body) ==
    IF c.userID = 0 THEN Panic("SetJournalStatus")
    ELSE IF ~body.ok THEN Fail("SetJournalStatus", 400, "bind")
    ELSE
    LET f == [journal_id |-> journalid, user_id |-> c.userID] IN
        Outcome("SetJournalStatus",
                IF FindIdx(journals, f) # 0
                THEN UpdateOne(journals, f, [status |-> body.status, updated_at |-> now + 1])
                ELSE InsertOne(journals,
                               [NewJournalEntry(journalid, c.userID, Entry(0, ""), ZeroTime)
                                   EXCEPT !.entries = <<>>, !.version = 0,
                                          !.status = body.status,
                                          !.updated_at = now + 1]),
                now + 1, ids, hist, 200, MessageBody("Journal status updated"),
                "SetJournalStatus")

SetJournalStatus(c, journalid, body) ==
    LET op == "SetJournalStatus" IN
    IF c.userID = 0 THEN Panic(op)
    ELSE IF ~body.ok THEN Fail(op, 400, "bind")
    ELSE
    LET f == [journal_id |-> journalid, user_id |-> c.userID] IN
        Outcome(op,
                UpdateOne(journals, f, [status |-> body.status, updated_at |-> now + 1]),
                now + 1, ids,
                IF FindIdx(journals, f) = 0 THEN hist ELSE Noted(journalid, "status"),
                200, MessageBody("Journal status updated"), op)

\* (mutant of LatestEntry: the entry the current-version pointer names)
LatestEntry_ByPointer(journal) ==
    SelectSeq(journal.entries, LAMBDA e : e.version = journal.version)

\* latestEntry: the last element of Entries, in a one-element array
LatestEntry(journal) ==
    IF Len(journal.entries) > 0
    THEN <<journal.entries[Len(journal.entries)]>>
    ELSE <<>>

\* the gin.H of the branch `exists && user != nil`
FullProjection(journal) ==
    [kind |-> "full", createdAt |-> journal.created_at, updatedAt |-> journal.updated_at,
     version |-> journal.version, status |-> journal.status, userID |-> journal.user_id,
     entries |-> journal.entries, taxonomy |-> journal.taxonomy,
     summary |-> journal.summary]

\* the gin.H of the else branch
ReducedProjection(journal) ==
    [kind |-> "reduced", journalID |-> journal.journal_id, userID |-> journal.user_id,
     version |-> journal.version, status |-> journal.status,
     taxonomy |-> journal.taxonomy, summary |-> journal.summary,
     entries |-> LatestEntry(journal)]

GetJournalEntry(c, journalid) ==
    LET op == "GetJournalEntry"
        i == FindIdx(journals, [journal_id |-> journalid])
    IN  IF i = 0 THEN Fail(op, 404, "Journal entry not found")
        ELSE Answer(op, IF c.user # 0 THEN FullProjection(journals[i])
                        ELSE ReducedProjection(journals[i]))

\* {"created_at": {"$gte": start, "$lte": end}} with string bounds against a
\* stored BSON date: the store compares within one type only, a date is never
\* within two strings
DateInRange(doc, start, end) == FALSE

\* (mutant of PublicFilterMatches: the filter starts empty, bson.M{})
PublicFilterMatches_NoStatus(doc, q) ==
    /\ (q.start # "" /\ q.end # "") => FALSE
    /\ q.category # "" => q.category \in doc.taxonomy.categories
    /\ q.subcategory # "" => q.subcategory \in doc.taxonomy.subcategories
    /\ q.topic # "" => q.topic \in doc.taxonomy.topics
    /\ q.tag # "" => q.tag \in doc.taxonomy.tags
    /\ q.user # 0 => doc.user_id = q.user

\* The filter GetPublicJournals builds from the query string; q.user = 0 and ""
\* stand for an absent parameter
PublicFilterMatches(doc, q) ==
    /\ doc.status = "public"
    /\ (q.start # "" /\ q.end # "") => DateInRange(doc, q.start, q.end)
    /\ q.category # "" => q.category \in doc.taxonomy.categories
    /\ q.subcategory # "" => q.subcategory \in doc.taxonomy.subcategories
    /\ q.topic # "" => q.topic \in doc.taxonomy.topics
    /\ q.tag # "" => q.tag \in doc.taxonomy.tags
    /\ q.user # 0 => doc.user_id = q.user

\* Find + cursor.All with the filter built from the query string
GetPublicJournals(c, q) ==
    Answer("GetPublicJournals",
           ListBody(SelectSeq(journals, LAMBDA d : PublicFilterMatches(d, q))))

GetUserJournals(c, userid) ==
    Answer("GetUserJournals", ListBody(SelectSeq(journals, LAMBDA d : d.user_id = userid)))

\* (mutant of DeleteJournalEntry: the filter names the journal only)
DeleteJournalEntry_AnyUser(c, journalid) ==
    IF c.userID = 0 THEN Panic("DeleteJournalEntry")
    ELSE Outcome("DeleteJournalEntry",
                 DeleteOne(journals, [journal_id |-> journalid]),
                 now, ids, hist, 200, MessageBody("Journal entry deleted"),
                 "DeleteJournalEntry")

DeleteJournalEntry(c, journalid) ==
    LET op == "DeleteJournalEntry" IN
    IF c.userID = 0 THEN Panic(op)
    ELSE Outcome(op,
                 DeleteOne(journals, [journal_id |-> journalid, user_id |-> c.userID]),
                 now, ids, hist, 200, MessageBody("Journal entry deleted"), op)

----------------------------------------------------------------------------
(* Request inputs *)

\* JSON bodies for SetJournalVersion: malformed, or {"version": n}
TargetVersions == {0, 1, 2, 3}
VersionBodies ==
    {[ok |-> FALSE, version |-> 0]} \cup {[ok |-> TRUE, version |-> v] : v \in TargetVersions}

\* JSON bodies for SetJournalStatus: malformed, or {"status": s}
StatusBodies ==
    {[ok |-> FALSE, status |-> ""]} \cup {[ok |-> TRUE, status |-> s] : s \in Statuses}

\* Query strings of GET /journal: each of the seven filters absent or present,
\* with none, one, two or all of them present
AllQueries ==
    [start : {"", "2024-01-01"}, end : {"", "2024-12-31"}, category : {"", "work"},
     subcategory : {"", "go"}, topic : {"", "api"}, tag : {"", "t"},
     user : {0} \cup UserIDs]
Present(q) ==
    {k \in {"start", "end", "category", "subcategory", "topic", "tag"} : q[k] # ""}
        \cup (IF q.user # 0 THEN {"user"} ELSE {})
Queries == {q \in AllQueries : Cardinality(Present(q)) \in {0, 1, 2, 7}}

----------------------------------------------------------------------------
(* Spec: every handler on every context of HandlerContexts. The store takes *)
(* the handler's writes; what the handler answers is the value of its       *)
(* operator, which the properties read.                                      *)

HandlerContexts == {NoCtx} \cup {Ctx(u, u) : u \in UserIDs}

\* The store after a handler ran, within the bounds of the model
Apply(out) ==
    /\ out.now <= MaxClock
    /\ out.ids <= Cardinality(JournalIDs)
    /\ journals' = out.journals
    /\ now' = out.now
    /\ ids' = out.ids
    /\ hist' = out.hist
    /\ UNCHANGED <<users, pending, skills, certificates, oids, profiles, images>>

CallCreateJournalEntry ==
    \E c \in HandlerContexts, body \in EntryBodies :
        Apply(CreateJournalEntry(c, body)) /\ UNCHANGED <<request, response>>

CallUpdateJournalEntry ==
    \E c \in HandlerContexts, j \in JournalIDs, body \in EntryBodies :
        Apply(UpdateJournalEntry(c, j, body)) /\ UNCHANGED <<request, response>>

CallGetJournalMeta ==
    \E j \in JournalIDs : Apply(GetJournalMeta(NoCtx, j)) /\ UNCHANGED <<request, response>>

CallProcessJournalEntry ==
    \E c \in HandlerContexts, j \in JournalIDs : Apply(ProcessJournalEntry(c, j)) /\ UNCHANGED <<request, response>>

CallGetJournalVersions ==
    \E j \in JournalIDs : Apply(GetJournalVersions(NoCtx, j)) /\ UNCHANGED <<request, response>>

CallSetJournalVersion ==
    \E c \in HandlerContexts, j \in JournalIDs, body \in VersionBodies :
        Apply(SetJournalVersion(c, j, body)) /\ UNCHANGED <<request, response>>

CallSetJournalStatus ==
    \E c \in HandlerContexts, j \in JournalIDs, body \in StatusBodies :
        Apply(SetJournalStatus(c, j, body)) /\ UNCHANGED <<request, response>>

CallGetJournalEntry ==
    \E c \in HandlerContexts, j \in JournalIDs : Apply(GetJournalEntry(c, j)) /\ UNCHANGED <<request, response>>

CallGetPublicJournals ==
    \E q \in Queries : Apply(GetPublicJournals(NoCtx, q)) /\ UNCHANGED <<request, response>>

CallGetUserJournals ==
    \E u \in UserIDs : Apply(GetUserJournals(NoCtx, u)) /\ UNCHANGED <<request, response>>

CallDeleteJournalEntry ==
    \E c \in HandlerContexts, j \in JournalIDs : Apply(DeleteJournalEntry(c, j)) /\ UNCHANGED <<request, response>>

Next ==
    \/ CallCreateJournalEntry
    \/ CallUpdateJournalEntry
    \/ CallGetJournalMeta
    \/ CallProcessJournalEntry
    \/ CallGetJournalVersions
    \/ CallSetJournalVersion
    \/ CallSetJournalStatus
    \/ CallGetJournalEntry
    \/ CallGetPublicJournals
    \/ CallGetUserJournals
    \/ CallDeleteJournalEntry

Spec == Init /\ [][Next]_vars

----------------------------------------------------------------------------
(* auth/auth.go and the auth middleware *)

\* bcrypt.GenerateFromPassword / CompareHashAndPassword: the hash is not the
\* password, and only the password it was made from compares equal
Hash(password) == <<"bcrypt", password>>
CompareHashAndPassword(hashed, password) == hashed = Hash(password)

\* createToken: a JWT signed with the server's key, claims.Id = the user's ID
createToken(userID) == Token(userID, TRUE)

\* (mutant of AuthMiddleware: a token whose user is not stored passes on)
AuthMiddleware_UnknownUserPasses(ck, required) ==
    IF ~ck.present THEN [abort |-> required, c |-> NoCtx]
    ELSE IF ~ck.ok THEN [abort |-> required, c |-> NoCtx]
    ELSE IF FindIdx(users, [id |-> ck.id]) = 0 THEN [abort |-> FALSE, c |-> NoCtx]
    ELSE [abort |-> FALSE, c |-> Ctx(users[FindIdx(users, [id |-> ck.id])].id, 0)]

\* AuthMiddleware(db, dbName, required) on a request's cookie: whether the
\* chain is aborted (401), and the context handed to the handler otherwise
AuthMiddleware(ck, required) ==
    IF ~ck.present THEN [abort |-> required, c |-> NoCtx]
    ELSE IF ~ck.ok THEN [abort |-> required, c |-> NoCtx]
    ELSE IF FindIdx(users, [id |-> ck.id]) = 0 THEN [abort |-> required, c |-> NoCtx]
    ELSE [abort |-> FALSE, c |-> Ctx(users[FindIdx(users, [id |-> ck.id])].id, 0)]

\* c.AbortWithStatusJSON(http.StatusUnauthorized, ...): no handler runs
Aborted ==
    Outcome("none", journals, now, ids, hist, 401, ErrorBody("Not authenticated"),
            "AuthMiddleware")

----------------------------------------------------------------------------
(* SpecHTTP: the routes of auth.InitializeRoutes and journal.InitializeRoutes *)

Cookies == {NoCookie} \cup {Token(i, good) : i \in UserIDs, good \in BOOLEAN}

RegisterBodies ==
    {[ok |-> FALSE, email |-> "", password |-> ""]}
        \cup {[ok |-> TRUE, email |-> e, password |-> p] : e \in Emails, p \in Passwords}

\* The response and the request on the wire, and the store after the handler
Serve(req, out) ==
    /\ Apply(out)
    /\ request' = req
    /\ response' = [op |-> out.op, status |-> out.status, body |-> out.body,
                    by |-> out.by]

\* A route of the group protected.Use(authRequired): out is the outcome of the
\* handler on the context AuthContext(req.cookie) the middleware hands on
AuthContext(ck) == AuthMiddleware(ck, TRUE).c
Protected(req, out) ==
    IF AuthMiddleware(req.cookie, TRUE).abort THEN Serve(req, Aborted)
    ELSE Serve(req, out)

Reply(route, status, body) ==
    /\ request' = Request(route, NoCookie, 0, TRUE, "", 0, "")
    /\ response' = [op |-> route, status |-> status, body |-> body, by |-> route]

AuthReply(route, status, body) ==
    /\ Reply(route, status, body)
    /\ UNCHANGED <<journals, now, ids, hist, pending, skills, certificates, oids, profiles, images>>

\* existingUser.Email != "" after FindOne by email decoded into existingUser
\* (left zero when there is no such document)
EmailTaken(email) ==
    /\ FindIdx(users, [email |-> email]) # 0
    /\ users[FindIdx(users, [email |-> email])].email # ""

\* The User that Register inserts
NewUser(req) ==
    [id |-> Len(users) + 1, name |-> "", email |-> req.email,
     password |-> Hash(req.password)]

RegisterWith(req) ==
        IF ~req.ok
        THEN AuthReply("Register", 400, ErrorBody("Invalid request body"))
                /\ UNCHANGED users
        ELSE IF EmailTaken(req.email)
        THEN AuthReply("Register", 409, ErrorBody("Email already registered"))
                /\ UNCHANGED users
        ELSE /\ Len(users) < Cardinality(UserIDs)
             /\ users' = InsertOne(users, NewUser(req))
             /\ AuthReply("Register", 201, MessageBody("User created"))

Register == \E req \in RegisterBodies : RegisterWith(req)

Login ==
    \E req \in RegisterBodies :
        LET i == FindIdx(users, [email |-> req.email]) IN
        /\ IF ~req.ok
           THEN AuthReply("Login", 400, ErrorBody("Invalid request body"))
           ELSE IF i = 0 \/ ~CompareHashAndPassword(users[i].password, req.password)
           THEN AuthReply("Login", 401, ErrorBody("Invalid email or password"))
           ELSE AuthReply("Login", 200, [kind |-> "token", token |-> createToken(users[i].id)])
        /\ UNCHANGED users

Logout ==
    /\ AuthReply("Logout", 200, MessageBody("Logged out"))
    /\ UNCHANGED users

\* The four GET routes carry no middleware: their handlers run on a context
\* without identity, whatever cookie the request holds
GET_journals ==
    \E q \in Queries :
        Serve(Request("GET /journal/", NoCookie, 0, TRUE, "", 0, ""),
              GetPublicJournals(NoCtx, q))

GET_user_journals ==
    \E u \in UserIDs :
        Serve(Request("GET /journal/u/:userid", NoCookie, 0, TRUE, "", 0, ""),
              GetUserJournals(NoCtx, u))

GET_journal ==
    \E ck \in Cookies, j \in JournalIDs :
        Serve(Request("GET /journal/:journalid", ck, j, TRUE, "", 0, ""),
              GetJournalEntry(NoCtx, j))

GET_journal_meta ==
    \E j \in JournalIDs :
        Serve(Request("GET /journal/:journalid/meta", NoCookie, j, TRUE, "", 0, ""),
              GetJournalMeta(NoCtx, j))

POST_journal ==
    \E ck \in Cookies, body \in EntryBodies :
        Protected(Request("POST /journal/", ck, 0, body.ok, body.entry.title, 0, ""),
                  CreateJournalEntry(AuthContext(ck), body))

PUT_journal ==
    \E ck \in Cookies, j \in JournalIDs, body \in EntryBodies :
        Protected(Request("PUT /journal/:journalid", ck, j, body.ok, body.entry.title, 0, ""),
                  UpdateJournalEntry(AuthContext(ck), j, body))

PUT_journal_process ==
    \E ck \in Cookies, j \in JournalIDs :
        Protected(Request("PUT /journal/:journalid/process", ck, j, TRUE, "", 0, ""),
                  ProcessJournalEntry(AuthContext(ck), j))

GET_journal_versions ==
    \E ck \in Cookies, j \in JournalIDs :
        Protected(Request("GET /journal/:journalid/versions", ck, j, TRUE, "", 0, ""),
                  GetJournalVersions(AuthContext(ck), j))

PUT_journal_version ==
    \E ck \in Cookies, j \in JournalIDs, body \in VersionBodies :
        Protected(Request("PUT /journal/:journalid/version", ck, j, body.ok, "", body.version, ""),
                  SetJournalVersion(AuthContext(ck), j, body))

PUT_journal_status ==
    \E ck \in Cookies, j \in JournalIDs, body \in StatusBodies :
        Protected(Request("PUT /journal/:journalid/status", ck, j, body.ok, "", 0, body.status),
                  SetJournalStatus(AuthContext(ck), j, body))

DELETE_journal ==
    \E ck \in Cookies, j \in JournalIDs :
        Protected(Request("DELETE /journal/:journalid", ck, j, TRUE, "", 0, ""),
                  DeleteJournalEntry(AuthContext(ck), j))

NextHTTP ==
    \/ Register
    \/ Login
    \/ Logout
    \/ GET_journals
    \/ GET_user_journals
    \/ GET_journal
    \/ GET_journal_meta
    \/ POST_journal
    \/ PUT_journal
    \/ PUT_journal_process
    \/ GET_journal_versions
    \/ PUT_journal_version
    \/ PUT_journal_status
    \/ DELETE_journal

SpecHTTP == Init /\ [][NextHTTP]_vars

----------------------------------------------------------------------------
(* SpecConcurrent: the journal handlers as gin runs them, one goroutine per *)
(* request. A handler that reads the aggregate (FindOne) and writes it back *)
(* (UpdateOne) takes two steps, between which other requests' store calls   *)
(* may fall; a handler with one store call takes one step. The handlers run *)
(* on contexts that hold "userID"; returns before the first store call and  *)
(* the 404 / 400 returns after FindOne leave nothing behind and are not     *)
(* steps here. The requests all address one aggregate: a journal is        *)
(* created while none is stored.                                            *)

OwnerContexts == {c \in HandlerContexts : c.userID # 0}

InFlight(w, pc, c, journalid, journal, entry, version) ==
    [pending EXCEPT ![w] =
        [pc |-> pc, userID |-> c.userID, jid |-> journalid, read |-> <<journal>>,
         entry |-> entry, version |-> version, email |-> "", password |-> ""]]

OwnerFilter(p) == [journal_id |-> p.jid, user_id |-> p.userID]

\* UpdateJournalEntry up to and including FindOne(...).Decode(&journal)
ReadUpdateJournalEntry(w) ==
    \E c \in OwnerContexts, j \in JournalIDs, body \in EntryBodies :
        LET i == FindIdx(journals, [journal_id |-> j, user_id |-> c.userID]) IN
        /\ pending[w].pc = "idle"
        /\ body.ok
        /\ i # 0
        /\ pending' = InFlight(w, "UpdateJournalEntry", c, j, journals[i], body.entry, 0)
        /\ UNCHANGED <<users, journals, now, ids, request, response, hist, skills,
                       certificates, oids, profiles, images>>

\* UpdateJournalEntry from line 118 on: the write of the journal it decoded
WriteUpdateJournalEntry(w) ==
    LET p == pending[w]
        journal == Appended(p.read[1], p.entry, now + 1)
    IN  /\ p.pc = "UpdateJournalEntry"
        /\ now + 1 <= MaxClock
        /\ journals' = SaveAppended(journals, OwnerFilter(p), journal)
        /\ now' = now + 1
        /\ hist' = IF FindIdx(journals, OwnerFilter(p)) = 0 THEN hist
                   ELSE Noted(p.jid, "append")
        /\ pending' = [pending EXCEPT ![w] = Idle]
        /\ UNCHANGED <<users, ids, request, response, skills, certificates, oids, profiles, images>>

\* SetJournalVersion up to the loop finding the requested version
ReadSetJournalVersion(w) ==
    \E c \in OwnerContexts, j \in JournalIDs, body \in VersionBodies :
        LET i == FindIdx(journals, [journal_id |-> j, user_id |-> c.userID]) IN
        /\ pending[w].pc = "idle"
        /\ body.ok
        /\ i # 0
        /\ HasVersion(journals[i], body.version)
        /\ pending' = InFlight(w, "SetJournalVersion", c, j, journals[i], Entry(0, ""),
                               body.version)
        /\ UNCHANGED <<users, journals, now, ids, request, response, hist, skills,
                       certificates, oids, profiles, images>>

\* SetJournalVersion's UpdateOne of version and updated_at
WriteSetJournalVersion(w) ==
    LET p == pending[w] IN
        /\ p.pc = "SetJournalVersion"
        /\ now + 1 <= MaxClock
        /\ journals' = UpdateOne(journals, OwnerFilter(p),
                                 [version |-> p.version, updated_at |-> now + 1])
        /\ now' = now + 1
        /\ hist' = IF FindIdx(journals, OwnerFilter(p)) = 0 THEN hist
                   ELSE Noted(p.jid, "version")
        /\ pending' = [pending EXCEPT ![w] = Idle]
        /\ UNCHANGED <<users, ids, request, response, skills, certificates, oids, profiles, images>>

\* The journal the request in flight answers with 200 after its write at tick
\* t: the aggregate it decoded, changed in memory
Answered(p, t) ==
    IF p.pc = "UpdateJournalEntry" THEN Appended(p.read[1], p.entry, t)
    ELSE [p.read[1] EXCEPT !.version = p.version, !.updated_at = t]

CreateWhileEmpty == journals = <<>> /\ CallCreateJournalEntry

NextConcurrent ==
    \/ CreateWhileEmpty
    \/ CallDeleteJournalEntry
    \/ \E w \in Workers : ReadUpdateJournalEntry(w)
    \/ \E w \in Workers : WriteUpdateJournalEntry(w)
    \/ \E w \in Workers : ReadSetJournalVersion(w)
    \/ \E w \in Workers : WriteSetJournalVersion(w)

SpecConcurrent == Init /\ [][NextConcurrent]_vars

----------------------------------------------------------------------------
(* SpecRegister: Register as gin runs it, the FindOne by email and the      *)
(* InsertOne being two store calls of one request                           *)

RegisterEmails == Emails \cup {""}

RegisterRequests ==
    {[ok |-> FALSE, email |-> "", password |-> ""]}
        \cup {[ok |-> TRUE, email |-> e, password |-> "pw"] : e \in RegisterEmails}

\* Register up to the check `existingUser.Email != ""`
CheckRegister(w) ==
    \E req \in RegisterRequests :
        /\ pending[w].pc = "idle"
        /\ IF ~req.ok
           THEN Reply("Register", 400, ErrorBody("Invalid request body"))
                    /\ UNCHANGED pending
           ELSE IF EmailTaken(req.email)
           THEN Reply("Register", 409, ErrorBody("Email already registered"))
                    /\ UNCHANGED pending
           ELSE /\ pending' = [pending EXCEPT ![w] =
                        [Idle EXCEPT !.pc = "Register", !.email = req.email,
                                     !.password = req.password]]
                /\ UNCHANGED <<request, response>>
        /\ UNCHANGED <<users, journals, now, ids, hist, skills, certificates, oids, profiles, images>>

\* Register from `newUser := User{...}` on
InsertRegister(w) ==
    LET p == pending[w] IN
        /\ p.pc = "Register"
        /\ Len(users) < MaxUsers
        /\ users' = InsertOne(users, NewUser(p))
        /\ Reply("Register", 201, MessageBody("User created"))
        /\ pending' = [pending EXCEPT ![w] = Idle]
        /\ UNCHANGED <<journals, now, ids, hist, skills, certificates, oids, profiles, images>>

NextRegister ==
    \/ \E w \in Workers : CheckRegister(w)
    \/ \E w \in Workers : InsertRegister(w)
    \/ Login
    \/ Logout

SpecRegister == Init /\ [][NextRegister]_vars

----------------------------------------------------------------------------
(* skills/skills.go and certificates/certificates.go. experience.go has the *)
(* shape of skills.go, the qualifications handlers that of certificates.go. *)

\* skills.Skill; only name varies between the bodies of the model
Skill(userID, skillID, name) ==
    [user_id |-> userID, skill_id |-> skillID, name |-> name,
     proficiency_level |-> "", started_at |-> "", last_used |-> "",
     description |-> ""]

\* A "certificates" document: certificates.Certificate and the cert_image
\* field PutCertificateImage sets ("" where the document has none)
Certificate(userID, certificateID, title) ==
    [user_id |-> userID, certificate_id |-> certificateID, title |-> title,
     institution |-> "", start |-> "", end |-> "", description |-> "",
     cert_image |-> ""]

\* Decode(&certificate): the struct has no cert_image
DecodeCertificate(doc) ==
    [k \in DOMAIN doc \ {"cert_image"} |-> doc[k]]

\* JSON bodies of the sub-resource routes: malformed, without ids, or with ids
\* of the client's choosing (0 stands for an absent, empty, id)
SkillBodies ==
    {[ok |-> FALSE, req |-> Skill(0, 0, "")],
     [ok |-> TRUE, req |-> Skill(0, 0, "go")],
     [ok |-> TRUE, req |-> Skill(2, 7, "tla")]}
CertificateBodies ==
    {[ok |-> FALSE, req |-> Certificate(0, 0, "")],
     [ok |-> TRUE, req |-> Certificate(1, 7, "msc")]}

\* The ids primitive.NewObjectID().Hex() hands out, in this order, and an id
\* of the client's choosing; a path names the latter or an id handed out
ObjectIDs == {1}
ClientIDs == {9}
PathIDs == ClientIDs \cup {i \in ObjectIDs : i <= oids}

\* UpdateOne with {"$set": set} and SetUpsert(true): without a match a document
\* is inserted that holds the filter's fields and those of set
UpsertOne(coll, f, set, zero) ==
    IF FindIdx(coll, f) # 0 THEN UpdateOne(coll, f, set)
    ELSE InsertOne(coll,
            [k \in DOMAIN zero |->
                IF k \in DOMAIN set THEN set[k]
                ELSE IF k \in DOMAIN f THEN f[k] ELSE zero[k]])

\* What a sub-resource handler leaves behind: the two collections, the ids
\* handed out, and its response
Result(op, sk, ce, n, status, body) ==
    [op |-> op, skills |-> sk, certificates |-> ce, oids |-> n, status |-> status,
     body |-> body, by |-> op]

GetSkills(userid) ==
    Result("GetSkills", skills, certificates, oids, 200,
           ListBody(SelectSeq(skills, LAMBDA d : d.user_id = userid)))

\* GetSkill against the collection coll: FindOne's error, ErrNoDocuments
\* included, is answered 500
GetSkillIn(coll, userid, skillid) ==
    LET i == FindIdx(coll, [user_id |-> userid, skill_id |-> skillid]) IN
    IF i = 0
    THEN [status |-> 500, body |-> ErrorBody("Could not retrieve skill")]
    ELSE [status |-> 200, body |-> [kind |-> "skill", skill |-> coll[i]]]

GetSkill(userid, skillid) ==
    Result("GetSkill", skills, certificates, oids,
           GetSkillIn(skills, userid, skillid).status,
           GetSkillIn(skills, userid, skillid).body)

PostSkill(userid, body) ==
    IF ~body.ok
    THEN Result("PostSkill", skills, certificates, oids, 400,
                ErrorBody("Invalid request body"))
    ELSE Result("PostSkill",
                InsertOne(skills, [body.req EXCEPT !.user_id = userid,
                                                    !.skill_id = oids + 1]),
                certificates, oids + 1, 200, MessageBody("Skill created"))

PutSkill(userid, skillid, body) ==
    IF ~body.ok
    THEN Result("PutSkill", skills, certificates, oids, 400,
                ErrorBody("Invalid request body"))
    ELSE Result("PutSkill",
                UpsertOne(skills, [user_id |-> userid, skill_id |-> skillid],
                          [body.req EXCEPT !.user_id = userid, !.skill_id = skillid],
                          Skill(0, 0, "")),
                certificates, oids, 200, MessageBody("Skill updated"))

DeleteSkill(userid, skillid) ==
    Result("DeleteSkill",
           DeleteOne(skills, [user_id |-> userid, skill_id |-> skillid]),
           certificates, oids, 200, MessageBody("Skill deleted"))

GetCertificates(userid) ==
    Result("GetCertificates", skills, certificates, oids, 200,
           ListBody([k \in 1..Len(SelectSeq(certificates, LAMBDA d : d.user_id = userid)) |->
                DecodeCertificate(SelectSeq(certificates, LAMBDA d : d.user_id = userid)[k])]))

GetCertificateEntryIn(coll, userid, certificateid) ==
    LET i == FindIdx(coll, [user_id |-> userid, certificate_id |-> certificateid]) IN
    IF i = 0
    THEN [status |-> 500, body |-> ErrorBody("Could not retrieve certificate")]
    ELSE [status |-> 200,
          body |-> [kind |-> "certificate", certificate |-> DecodeCertificate(coll[i])]]

GetCertificateEntry(userid, certificateid) ==
    Result("GetCertificateEntry", skills, certificates, oids,
           GetCertificateEntryIn(certificates, userid, certificateid).status,
           GetCertificateEntryIn(certificates, userid, certificateid).body)

PostCertificate(userid, body) ==
    IF ~body.ok
    THEN Result("PostCertificate", skills, certificates, oids, 400,
                ErrorBody("Invalid request body"))
    ELSE Result("PostCertificate", skills,
                InsertOne(certificates, [body.req EXCEPT !.user_id = userid,
                                                          !.certificate_id = oids + 1]),
                oids + 1, 200, MessageBody("Certificate Added"))

\* (mutant of PutCertificateEntry: the document is inserted, not upserted)
PutCertificateEntry_Insert(userid, certificateid, body) ==
    IF ~body.ok
    THEN Result("PutCertificateEntry", skills, certificates, oids, 400,
                ErrorBody("Invalid request body"))
    ELSE Result("PutCertificateEntry", skills,
                InsertOne(certificates,
                          [body.req EXCEPT !.user_id = userid,
                                           !.certificate_id = certificateid]),
                oids, 200, MessageBody("Certificate updated"))

\* $set of the Certificate struct: cert_image is not among its fields
PutCertificateEntry(userid, certificateid, body) ==
    IF ~body.ok
    THEN Result("PutCertificateEntry", skills, certificates, oids, 400,
                ErrorBody("Invalid request body"))
    ELSE Result("PutCertificateEntry", skills,
                UpsertOne(certificates,
                          [user_id |-> userid, certificate_id |-> certificateid],
                          DecodeCertificate([body.req EXCEPT !.user_id = userid,
                                                            !.certificate_id = certificateid]),
                          Certificate(0, 0, "")),
                oids, 200, MessageBody("Certificate updated"))

DeleteCertificateEntry(userid, certificateid) ==
    Result("DeleteCertificateEntry", skills,
           DeleteOne(certificates, [user_id |-> userid, certificate_id |-> certificateid]),
           oids, 200, MessageBody("Certificate deleted"))

\* file: whether the form holds a "file" part; stored: whether the driver
\* could encode the multipart.File value it is handed
PutCertificateImage(userid, certificateid, file, stored) ==
    IF ~file
    THEN Result("PutCertificateImage", skills, certificates, oids, 400,
                ErrorBody("invalid request body"))
    ELSE IF ~stored
    THEN Result("PutCertificateImage", skills, certificates, oids, 500,
                ErrorBody("could not update certification"))
    ELSE Result("PutCertificateImage", skills,
                UpsertOne(certificates,
                          [user_id |-> userid, certificate_id |-> certificateid],
                          [cert_image |-> "file"], Certificate(0, 0, "")),
                oids, 200, MessageBody("cert image uploaded"))

----------------------------------------------------------------------------
(* SpecResources: the routes of skills.InitializeRoutes and of              *)
(* certificates.InitializeRoutes, with Register providing the users. The    *)
(* store takes the writes of a request; what the request is answered is the *)
(* value of its operator, which the properties read.                        *)

NoResult ==
    Result("none", skills, certificates, oids, 401, ErrorBody("Not authenticated"))

\* The cookies of the requests: none, or the token of a user id
ResourceCookies == {NoCookie} \cup {Token(i, TRUE) : i \in UserIDs}

\* The handler's result behind AuthMiddleware(db, db_name, true)
Guarded(ck, result) ==
    IF AuthMiddleware(ck, TRUE).abort
    THEN [NoResult EXCEPT !.by = "AuthMiddleware"]
    ELSE result

\* The collections after the request, within the bounds of the model
Store(result) ==
    /\ Len(result.skills) + Len(result.certificates) <= MaxDocs
    /\ result.oids <= Cardinality(ObjectIDs)
    /\ skills' = result.skills
    /\ certificates' = result.certificates
    /\ oids' = result.oids
    /\ UNCHANGED <<users, journals, now, ids, request, response, hist, pending,
                   profiles, images>>

\* A read: the response is the value of the handler
Read(result) ==
    /\ result.status \in {200, 500}
    /\ UNCHANGED vars

GET_skills == \E u \in UserIDs : Read(GetSkills(u))

GET_skill == \E u \in UserIDs, i \in PathIDs : Read(GetSkill(u, i))

POST_skill ==
    \E ck \in ResourceCookies, u \in UserIDs, body \in SkillBodies :
        Store(Guarded(ck, PostSkill(u, body)))

PUT_skill ==
    \E ck \in ResourceCookies, u \in UserIDs, i \in PathIDs, body \in SkillBodies :
        Store(Guarded(ck, PutSkill(u, i, body)))

DELETE_skill ==
    \E ck \in ResourceCookies, u \in UserIDs, i \in PathIDs :
        Store(Guarded(ck, DeleteSkill(u, i)))

GET_certificates == \E u \in UserIDs : Read(GetCertificates(u))

GET_certificate == \E u \in UserIDs, i \in PathIDs : Read(GetCertificateEntry(u, i))

POST_certificate ==
    \E ck \in ResourceCookies, u \in UserIDs, body \in CertificateBodies :
        Store(Guarded(ck, PostCertificate(u, body)))

PUT_certificate ==
    \E ck \in ResourceCookies, u \in UserIDs, i \in PathIDs, body \in CertificateBodies :
        Store(Guarded(ck, PutCertificateEntry(u, i, body)))

DELETE_certificate ==
    \E ck \in ResourceCookies, u \in UserIDs, i \in PathIDs :
        Store(Guarded(ck, DeleteCertificateEntry(u, i)))

PUT_certificate_image ==
    \E ck \in ResourceCookies, u \in UserIDs, i \in PathIDs, file \in BOOLEAN, stored \in BOOLEAN :
        Store(Guarded(ck, PutCertificateImage(u, i, file, stored)))

\* The users of the sub-resource routes register with one password each
RegisterUser ==
    \E e \in Emails : RegisterWith([ok |-> TRUE, email |-> e, password |-> "pw"])

NextResources ==
    \/ RegisterUser
    \/ GET_skills
    \/ GET_skill
    \/ POST_skill
    \/ PUT_skill
    \/ DELETE_skill
    \/ GET_certificates
    \/ GET_certificate
    \/ POST_certificate
    \/ PUT_certificate
    \/ DELETE_certificate
    \/ PUT_certificate_image

SpecResources == Init /\ [][NextResources]_vars

----------------------------------------------------------------------------
(* profile/profile.go and the image stores *)

Nil == "<nil>"      \* a nil *string of Profile: null in BSON

\* profile.Profile, with the fields the handlers of this model set
Profile(userID, name, img) == [user_id |-> userID, name |-> name, profile_img |-> img]

\* c.Param("userid") of the profile routes: any path segment
ProfileIDs == {"1", "1-2"}

\* fileHeader.Filename of the uploads
Filenames == {"a.png", "2-a.png"}

ProfileBodies ==
    {[ok |-> FALSE, req |-> Profile("", Nil, Nil)],
     [ok |-> TRUE, req |-> Profile("9", "ann", Nil)]}

\* The form's "profileImage" part
NoFile == [present |-> FALSE, filename |-> "", data |-> ""]
Files == {NoFile} \cup {[present |-> TRUE, filename |-> f, data |-> "img"] : f \in Filenames}

\* How a SaveImage call goes: well, or failing when the object is opened
\* (os.Create, PutObject), or failing while the bytes are copied
Faults == {"none", "create", "copy"}

\* The stores InitImageStore sets up, by IMAGE_STORE
ImageStoreKinds == {"local", "s3"}

\* fmt.Sprintf("%s-%s", userID, filename)
ImageName(userID, filename) == userID \o "-" \o filename

\* The objects after name was written with data: a stored object of that name
\* is replaced
Written(objects, name, data) ==
    {o \in objects : o.name # name} \cup {[name |-> name, data |-> data]}

\* LocalImageStore.SaveImage: os.Create truncates or creates the file, io.Copy
\* fills it; an error of io.Copy leaves the file as far as it was written
LocalSaveImage(objects, userID, file, fault) ==
    LET imageName == ImageName(userID, file.filename) IN
    IF fault = "create" THEN [err |-> TRUE, objects |-> objects, url |-> ""]
    ELSE IF fault = "copy"
    THEN [err |-> TRUE, objects |-> Written(objects, imageName, ""), url |-> ""]
    ELSE [err |-> FALSE, objects |-> Written(objects, imageName, file.data),
          url |-> "/images/" \o imageName]

\* S3ImageStore.SaveImage: one PutObject under Key imageName
S3SaveImage(objects, userID, file, fault) ==
    LET imageName == ImageName(userID, file.filename) IN
    IF fault # "none" THEN [err |-> TRUE, objects |-> objects, url |-> ""]
    ELSE [err |-> FALSE, objects |-> Written(objects, imageName, file.data),
          url |-> "https://bucket.s3.region.amazonaws.com/" \o imageName]

\* imageStore.SaveImage(userID, fileHeader.Filename, file)
SaveImage(store, userID, file, fault) ==
    IF store.kind = "s3" THEN S3SaveImage(store.objects, userID, file, fault)
    ELSE LocalSaveImage(store.objects, userID, file, fault)

\* What a profile handler leaves behind: the collection, the image store's
\* objects, and its response
ProfileResult(op, pr, objects, status, body) ==
    [op |-> op, profiles |-> pr, objects |-> objects, status |-> status, body |-> body]

GetProfile(userid) ==
    LET i == FindIdx(profiles, [user_id |-> userid]) IN
    IF i = 0
    THEN ProfileResult("GetProfile", profiles, images.objects, 500,
                       ErrorBody("Could not retrieve profile"))
    ELSE ProfileResult("GetProfile", profiles, images.objects, 200,
                       [kind |-> "profile", profile |-> profiles[i]])

\* fault: how SaveImage goes; updated: whether the UpdateOne that follows it
\* returns without error
PutImage(userid, file, fault, updated) ==
    LET op == "PutImage"
        saved == SaveImage(images, userid, file, fault)
    IN  IF ~file.present
        THEN ProfileResult(op, profiles, images.objects, 400,
                           ErrorBody("Profile image not found"))
        ELSE IF images.kind = "none"
        THEN ProfileResult(op, profiles, images.objects, 500,
                           ErrorBody("Image store not initialized"))
        ELSE IF saved.err
        THEN ProfileResult(op, profiles, saved.objects, 500,
                           ErrorBody("Could not upload image"))
        ELSE IF ~updated
        THEN ProfileResult(op, profiles, saved.objects, 500,
                           ErrorBody("Could not update profile image"))
        ELSE ProfileResult(op,
                           UpsertOne(profiles, [user_id |-> userid],
                                     [profile_img |-> saved.url], Profile("", Nil, Nil)),
                           saved.objects, 200,
                           [kind |-> "profileImage", profileImage |-> saved.url])

PutProfile(userid, body) ==
    IF ~body.ok
    THEN ProfileResult("PutProfile", profiles, images.objects, 400,
                       ErrorBody("Invalid request body"))
    ELSE ProfileResult("PutProfile",
                       UpsertOne(profiles, [user_id |-> userid],
                                 [body.req EXCEPT !.user_id = userid],
                                 Profile("", Nil, Nil)),
                       images.objects, 200, MessageBody("Profile updated"))

PostProfile(userid, body) ==
    IF ~body.ok
    THEN ProfileResult("PostProfile", profiles, images.objects, 400,
                       ErrorBody("Invalid request body"))
    ELSE ProfileResult("PostProfile",
                       InsertOne(profiles, [body.req EXCEPT !.user_id = userid]),
                       images.objects, 201, MessageBody("Profile created"))

----------------------------------------------------------------------------
(* SpecProfile: init() of package profile, then the routes of              *)
(* profile.InitializeRoutes, with Register providing the users.            *)

MaxProfiles == 2    \* documents in the "profiles" collection of SpecProfile

\* init(): InitImageStore sets imageStore by IMAGE_STORE, before main serves
InitImageStore ==
    /\ images = NoStore
    /\ \E k \in ImageStoreKinds : images' = [kind |-> k, objects |-> {}]
    /\ UNCHANGED <<users, journals, now, ids, request, response, hist, pending, skills,
                   certificates, oids, profiles>>

\* The handler's result behind AuthMiddleware(db, db_name, true)
GuardedProfile(ck, result) ==
    IF AuthMiddleware(ck, TRUE).abort
    THEN ProfileResult("none", profiles, images.objects, 401,
                       ErrorBody("Not authenticated"))
    ELSE result

\* The collection and the image store after the request, within the bounds of
\* the model; requests are served once init() has run
ServeProfile(result) ==
    /\ images # NoStore
    /\ Len(result.profiles) <= MaxProfiles
    /\ profiles' = result.profiles
    /\ images' = [images EXCEPT !.objects = result.objects]
    /\ UNCHANGED <<users, journals, now, ids, request, response, hist, pending, skills,
                   certificates, oids>>

GET_profile == \E u \in ProfileIDs : ServeProfile(GetProfile(u))

PUT_profile ==
    \E ck \in ResourceCookies, u \in ProfileIDs, body \in ProfileBodies :
        ServeProfile(GuardedProfile(ck, PutProfile(u, body)))

PUT_profile_image ==
    \E ck \in ResourceCookies, u \in ProfileIDs, file \in Files, fault \in Faults,
       updated \in BOOLEAN :
        ServeProfile(GuardedProfile(ck, PutImage(u, file, fault, updated)))

POST_profile ==
    \E ck \in ResourceCookies, u \in ProfileIDs, body \in ProfileBodies :
        ServeProfile(GuardedProfile(ck, PostProfile(u, body)))

NextProfile ==
    \/ InitImageStore
    \/ RegisterUser
    \/ GET_profile
    \/ PUT_profile
    \/ PUT_profile_image
    \/ POST_profile

SpecProfile == Init /\ [][NextProfile]_vars

----------------------------------------------------------------------------
(* Properties *)

Stored(jid) == FindIdx(journals, [journal_id |-> jid])

\* The cookie is a valid token of a stored user
Authenticated(ck) == ck.present /\ ck.ok /\ FindIdx(users, [id |-> ck.id]) # 0

\* The request comes from the owner of the stored journal it names
ByOwner(req) ==
    /\ Authenticated(req.cookie)
    /\ Stored(req.jid) # 0
    /\ journals[Stored(req.jid)].user_id = req.cookie.id

ProtectedRoutes ==
    {"POST /journal/", "PUT /journal/:journalid", "PUT /journal/:journalid/process",
     "GET /journal/:journalid/versions", "PUT /journal/:journalid/version",
     "PUT /journal/:journalid/status", "DELETE /journal/:journalid"}

NoFilters ==
    [start |-> "", end |-> "", category |-> "", subcategory |-> "", topic |-> "",
     tag |-> "", user |-> 0]

\* C1: every journal creation answered 201 returns, and stores, an aggregate
\* with version 1, exactly one entry, entries[0].version = 1 and status
\* "pending", whatever "version" the Entry payload carried.
C1_CreateSeedsVersionOne ==
    (response.op = "CreateJournalEntry" /\ response.status = 201) =>
        LET j == response.body.journal IN
            /\ j.version = 1
            /\ Len(j.entries) = 1
            /\ j.entries[1].version = 1
            /\ j.status = "pending"
            /\ Stored(j.journal_id) # 0
            /\ journals[Stored(j.journal_id)] = j

\* C2: a journal that has seen Create and then N appends and no other write
\* has N+1 entries, entries[i].version = i+1 (0-based i) and version = N+1.
C2_AppendsGapless ==
    \A i \in 1..Len(journals) :
        LET j == journals[i]
            h == hist[j.journal_id]
        IN  ~h.others =>
                /\ Len(j.entries) = h.appends + 1
                /\ \A k \in 1..Len(j.entries) : j.entries[k].version = k
                /\ j.version = h.appends + 1

C4_UnknownVersionIs400 ==
    (/\ request.route = "PUT /journal/:journalid/version"
     /\ request.ok
     /\ ByOwner(request)
     /\ ~HasVersion(journals[Stored(request.jid)], request.target))
        => /\ response.status = 400
           /\ response.body = ErrorBody("Version not found")

\* C5: in every reachable state the current-version pointer of every stored
\* journal is the version of one of its entries.
C5_PointerNamesAnEntry ==
    \A i \in 1..Len(journals) : HasVersion(journals[i], journals[i].version)

\* C6: GetJournalEntry without an identity in the context answers, for an
\* existing journal, the reduced projection whose entries are exactly the
\* last-appended entry, whatever the current-version pointer is.
C6_AnonymousReadIsLastAppended ==
    \A c \in HandlerContexts, jid \in JournalIDs :
        (c.user = 0 /\ Stored(jid) # 0) =>
            LET out == GetJournalEntry(c, jid)
                j == journals[Stored(jid)]
            IN  /\ out.status = 200
                /\ out.body.kind = "reduced"
                /\ out.body.version = j.version
                /\ out.body.entries = <<j.entries[Len(j.entries)]>>

\* C6 witness: entries [v1, v2, v3], the pointer set back to 1, and the
\* anonymous read answers v3, which is not the entry the pointer names.
C6_Witness ==
    \E i \in 1..Len(journals) :
        LET j == journals[i]
            out == GetJournalEntry(NoCtx, j.journal_id)
        IN  /\ Len(j.entries) = 3
            /\ j.version = 1
            /\ j.entries[1].version = 1
            /\ hist[j.journal_id].others
            /\ out.body.entries = <<j.entries[3]>>
            /\ j.entries[3].version = 3

\* C7: GET /journal/{id} with a valid credential of a registered user answers
\* the full aggregate (all entries, taxonomy, summary), not the reduced
\* projection.
C7_AuthenticatedReadIsFull ==
    (/\ request.route = "GET /journal/:journalid"
     /\ Authenticated(request.cookie)
     /\ Stored(request.jid) # 0)
        => /\ response.status = 200
           /\ response.body = FullProjection(journals[Stored(request.jid)])

\* C8: whatever the filters, GetPublicJournals lists no journal whose stored
\* status is not "public".
C8_PublicListingOnlyPublic ==
    \A q \in Queries :
        LET list == GetPublicJournals(NoCtx, q).body.list IN
            \A k \in 1..Len(list) :
                /\ list[k].status = "public"
                /\ \E i \in 1..Len(journals) : journals[i] = list[k]

\* C8 witness: a public and a non-public journal are stored, and the
\* unfiltered listing holds the public one alone.
C8_Witness ==
    LET list == GetPublicJournals(NoCtx, NoFilters).body.list IN
        /\ Len(journals) = 2
        /\ \E i \in 1..2 : journals[i].status = "public"
        /\ \E i \in 1..2 : journals[i].status # "public"
        /\ Len(list) = 1

\* C9: for a logged-in owner, PUT /journal/{id} on a freshly created journal
\* yields version 2 with two entries, the second holding the new payload;
\* PUT /journal/{id}/status "public" puts the journal into the unfiltered
\* public listing; DELETE /journal/{id} removes it.
C9_OwnerScenario ==
    /\ (/\ request.route = "PUT /journal/:journalid"
        /\ request.ok
        /\ ByOwner(request)
        /\ ~hist[request.jid].others
        /\ hist[request.jid].appends <= 1)
            => /\ response.status = 200
               /\ response.body.kind = "journal"
               /\ response.body.journal.version = 2
               /\ Len(response.body.journal.entries) = 2
               /\ response.body.journal.entries[2].title = request.title
               /\ journals[Stored(request.jid)].entries = response.body.journal.entries
    /\ (/\ request.route = "PUT /journal/:journalid/status"
        /\ request.ok
        /\ request.newStatus = "public"
        /\ ByOwner(request))
            => /\ response.status = 200
               /\ \E k \in 1..Len(GetPublicJournals(NoCtx, NoFilters).body.list) :
                    GetPublicJournals(NoCtx, NoFilters).body.list[k].journal_id = request.jid
    /\ (/\ request.route = "DELETE /journal/:journalid"
        /\ Authenticated(request.cookie))
            => /\ response.status = 200
               /\ Stored(request.jid) = 0
               /\ GetJournalEntry(NoCtx, request.jid).status = 404

\* C10: on a required-auth route, a request without a token cookie, with a
\* token that does not verify, or with a token of no stored user is answered
\* 401 by the middleware, no handler runs, and the store is unchanged.
C10_RequiredAuthRejects ==
    [][(/\ request'.route \in ProtectedRoutes
        /\ ~Authenticated(request'.cookie))
            => /\ response'.status = 401
               /\ response'.by = "AuthMiddleware"
               /\ response'.op = "none"
               /\ journals' = journals
               /\ users' = users
               /\ ids' = ids]_vars

\* C10 witness: a verifying token of a user that is not stored was rejected on
\* a protected route while journals were stored.
C10_Witness ==
    /\ request.route \in ProtectedRoutes
    /\ request.cookie.present
    /\ request.cookie.ok
    /\ ~Authenticated(request.cookie)
    /\ response.status = 401
    /\ Len(journals) > 0

\* The journal is among the documents of coll, as it is
Kept(journal, coll) == \E m \in 1..Len(coll) : coll[m] = journal

\* C12: whatever Append, Set-current-version, Set-status, Process or Delete a
\* caller other than the journal's userID issues, on whatever journalID and
\* body, every journal of another user is stored unchanged afterwards.
C12_NonOwnerChangesNothing ==
    \A c \in HandlerContexts, jid \in JournalIDs, k \in 1..Len(journals) :
        journals[k].user_id # c.userID =>
            /\ \A body \in EntryBodies :
                    Kept(journals[k], UpdateJournalEntry(c, jid, body).journals)
            /\ \A body \in VersionBodies :
                    Kept(journals[k], SetJournalVersion(c, jid, body).journals)
            /\ \A body \in StatusBodies :
                    Kept(journals[k], SetJournalStatus(c, jid, body).journals)
            /\ Kept(journals[k], ProcessJournalEntry(c, jid).journals)
            /\ Kept(journals[k], DeleteJournalEntry(c, jid).journals)

\* C12 witness: two users own a journal each; the second user's delete and
\* set-status of the first user's journal are answered 200 and change nothing,
\* while the same calls on the own journal do change the store.
C12_Witness ==
    /\ Len(journals) = 2
    /\ journals[1].user_id = 1
    /\ journals[2].user_id = 2
    /\ Len(journals[1].entries) = 2
    /\ DeleteJournalEntry(Ctx(2, 2), journals[1].journal_id).status = 200
    /\ DeleteJournalEntry(Ctx(2, 2), journals[1].journal_id).journals = journals
    /\ DeleteJournalEntry(Ctx(2, 2), journals[2].journal_id).journals = <<journals[1]>>
    /\ SetJournalStatus(Ctx(2, 2), journals[1].journal_id,
                        [ok |-> TRUE, status |-> "public"]).journals = journals

\* C13: PUT /journal/{id} with a body that binds, by an authenticated caller,
\* on a journalID that is not stored or is stored under another userID is
\* answered 404 "Journal entry not found".
C13_AppendElsewhereIs404 ==
    (/\ request.route = "PUT /journal/:journalid"
     /\ request.ok
     /\ Authenticated(request.cookie)
     /\ \/ Stored(request.jid) = 0
        \/ journals[Stored(request.jid)].user_id # request.cookie.id)
        => /\ response.status = 404
           /\ response.body = ErrorBody("Journal entry not found")

\* C14: DELETE /journal/{id} by an authenticated caller is answered 200
\* "Journal entry deleted" whether or not {journalID, userID} matched, and no
\* journal with that pair is stored afterwards.
C14_DeleteAlwaysSucceeds ==
    (/\ request.route = "DELETE /journal/:journalid"
     /\ Authenticated(request.cookie))
        => /\ response.status = 200
           /\ response.body = MessageBody("Journal entry deleted")
           /\ FindIdx(journals, [journal_id |-> request.jid,
                                 user_id |-> request.cookie.id]) = 0

StrictlyIncreasing(entries) ==
    \A k \in 1..(Len(entries) - 1) : entries[k].version < entries[k + 1].version

IsPrefix(s, t) == Len(s) <= Len(t) /\ SubSeq(t, 1, Len(s)) = s

\* The step is the write of request w's append, and since w read the journal
\* another append has written its entry with the same newVersion
RacedWrite(w) ==
    LET p == pending[w]
        i == FindIdx(journals, OwnerFilter(p))
    IN  /\ p.pc = "UpdateJournalEntry"
        /\ pending'[w].pc = "idle"
        /\ i # 0
        /\ IsPrefix(p.read[1].entries, journals[i].entries)
        /\ Len(journals[i].entries) = Len(p.read[1].entries) + 1
        /\ journals[i].entries[Len(journals[i].entries)].version = p.read[1].version + 1

C18_OneUserPerEmail ==
    \A i, k \in 1..Len(users) : users[i].email = users[k].email => i = k

DocsOf(coll, userid) == SelectSeq(coll, LAMBDA d : d.user_id = userid)

SameDocsOf(result, userid) ==
    /\ DocsOf(result.skills, userid) = DocsOf(skills, userid)
    /\ DocsOf(result.certificates, userid) = DocsOf(certificates, userid)

\* C11: a POST, PUT or DELETE on /skills/{userid}[/{id}] or
\* /certificates/{userid}[/{id}] with the valid token of a user other than
\* {userid} creates, changes and deletes no document whose user_id is {userid}.
C11_OnlyOwnerMutates ==
    \A ck \in ResourceCookies, u \in UserIDs :
        (Authenticated(ck) /\ ck.id # u) =>
            /\ \A body \in SkillBodies :
                    SameDocsOf(Guarded(ck, PostSkill(u, body)), u)
            /\ \A body \in CertificateBodies :
                    SameDocsOf(Guarded(ck, PostCertificate(u, body)), u)
            /\ \A i \in PathIDs :
                /\ \A body \in SkillBodies :
                        SameDocsOf(Guarded(ck, PutSkill(u, i, body)), u)
                /\ \A body \in CertificateBodies :
                        SameDocsOf(Guarded(ck, PutCertificateEntry(u, i, body)), u)
                /\ SameDocsOf(Guarded(ck, DeleteSkill(u, i)), u)
                /\ SameDocsOf(Guarded(ck, DeleteCertificateEntry(u, i)), u)

\* How many documents of coll the filter f matches
Count(coll, f) == Cardinality({k \in 1..Len(coll) : Matches(coll[k], f)})

C17_MissingIs404 ==
    \A u \in UserIDs, i \in PathIDs :
        /\ FindIdx(skills, [user_id |-> u, skill_id |-> i]) = 0
                => GetSkill(u, i).status = 404
        /\ FindIdx(certificates, [user_id |-> u, certificate_id |-> i]) = 0
                => GetCertificateEntry(u, i).status = 404

\* C22: PUT /journal/{id}/status by the journal's logged-in owner, with any
\* status string, is answered 200 and changes only status and updated_at of
\* that journal: its other fields and every other journal stay as they were.
C22_OwnerSetsAnyStatus ==
    [][(/\ request'.route = "PUT /journal/:journalid/status"
        /\ request'.ok
        /\ ByOwner(request'))
            => /\ response'.status = 200
               /\ journals' = [journals EXCEPT ![Stored(request'.jid)] =
                                  [@ EXCEPT !.status = request'.newStatus,
                                            !.updated_at = now']]
      ]_vars

\* The (journalID, userID) pairs of the stored journals, in store order
IdentityOf(coll) == [k \in 1..Len(coll) |-> <<coll[k].journal_id, coll[k].user_id>>]

Without(s, k) == SubSeq(s, 1, k - 1) \o SubSeq(s, k + 1, Len(s))

\* C23: every step leaves the journalID and userID of every stored journal as
\* they are: the pairs of the store stay the same, or lose one (delete), or
\* gain at the end the pair of a newly generated identifier (create).
C23_IdentityImmutable ==
    [][LET before == IdentityOf(journals)
           after == IdentityOf(journals')
       IN  \/ after = before
           \/ \E k \in 1..Len(before) : after = Without(before, k)
           \/ /\ ids' = ids + 1
              /\ \E u \in UserIDs : after = Append(before, <<ids', u>>)
      ]_vars

\* C23 witness: journal 2 of user 2 has been appended to, set back to version
\* 1 and processed, journal 1 has been deleted, and the journal still carries
\* the identifier and the user it was created with.
C23_Witness ==
    /\ ids = 2
    /\ Len(journals) = 1
    /\ journals[1].journal_id = 2
    /\ journals[1].user_id = 2
    /\ Len(journals[1].entries) = 2
    /\ journals[1].version = 1
    /\ journals[1].status = "processing"

\* C24: no two stored journals have the same journalID, and every stored
\* journalID is one that GenerateID handed out.
C24_OneJournalPerID ==
    /\ \A i, k \in 1..Len(journals) :
            journals[i].journal_id = journals[k].journal_id => i = k
    /\ \A i \in 1..Len(journals) : journals[i].journal_id \in 1..ids

\* C24 witness: two journals of two users are stored, the second appended to;
\* user 2's set-status and append on user 1's journal match nothing and insert
\* nothing.
C24_Witness ==
    /\ Len(journals) = 2
    /\ journals[1].user_id = 1
    /\ journals[2].user_id = 2
    /\ Len(journals[2].entries) = 2
    /\ journals[1].status = "public"
    /\ SetJournalStatus(Ctx(2, 2), journals[1].journal_id,
                        [ok |-> TRUE, status |-> "draft"]).status = 200
    /\ SetJournalStatus(Ctx(2, 2), journals[1].journal_id,
                        [ok |-> TRUE, status |-> "draft"]).journals = journals
    /\ UpdateJournalEntry(Ctx(2, 2), journals[1].journal_id,
                          [ok |-> TRUE, entry |-> Entry(0, "x")]).journals = journals

\* The protected journal routes whose handlers read the caller's id
CallerRoutes ==
    {"PUT /journal/:journalid", "PUT /journal/:journalid/version",
     "PUT /journal/:journalid/status", "PUT /journal/:journalid/process",
     "DELETE /journal/:journalid"}

\* C25: a request on one of the five protected journal routes that carries the
\* valid token of a stored user is answered by its handler, never by the
\* recovery from a panic on a missing context key.
C25_ContextKeysCovered ==
    (request.route \in CallerRoutes /\ Authenticated(request.cookie))
        => response.by # "Recovery"

C21_FailureChangesNothing ==
    \A u \in ProfileIDs :
        /\ \A file \in Files, fault \in Faults, updated \in BOOLEAN :
                LET out == PutImage(u, file, fault, updated) IN
                out.status # 200 =>
                    (out.profiles = profiles /\ out.objects = images.objects)
        /\ \A body \in ProfileBodies :
                /\ LET out == PutProfile(u, body) IN
                    out.status # 200 =>
                        (out.profiles = profiles /\ out.objects = images.objects)
                /\ LET out == PostProfile(u, body) IN
                    out.status # 201 =>
                        (out.profiles = profiles /\ out.objects = images.objects)

\* C29: at most one profile document is stored per user_id.
C29_OneProfilePerUser ==
    \A u \in ProfileIDs : Count(profiles, [user_id |-> u]) <= 1

\* C30: an image saved for one (ownerID, filename) is still stored, as it was
\* saved, after an image has been saved for a different (ownerID, filename),
\* whichever image store is configured.
C30_ImageNameInjective ==
    images # NoStore =>
        \A o1, o2 \in ProfileIDs, f1, f2 \in Files :
            (f1.present /\ f2.present /\ <<o1, f1.filename>> # <<o2, f2.filename>>) =>
                LET first == SaveImage(images, o1, f1, "none")
                    second == SaveImage([images EXCEPT !.objects = first.objects],
                                        o2, [f2 EXCEPT !.data = "other"], "none")
                IN  [name |-> ImageName(o1, f1.filename), data |-> f1.data]
                        \in second.objects

====
